---- MODULE Spec2Model ----
(***************************************************************************)
(* Model of src/server.js: an express service that proxies a market-data   *)
(* provider, computes RSI and moving averages over the historical closes   *)
(* and derives a heuristic score.                                          *)
(*                                                                         *)
(* Numbers.  A JavaScript number-or-null is the record                     *)
(*   [isNull, num, den]   (value num/den, den > 0).                        *)
(* Averages and the RSI are kept as exact fractions; floating-point        *)
(* rounding noise below the first decimal is not modelled.                 *)
(*                                                                         *)
(* Strings.  A query parameter is a sequence of one-character strings.     *)
(* The Japanese comment/judgment literals of the source are rendered by    *)
(* ASCII labels.                                                           *)
(***************************************************************************)
EXTENDS Integers, Sequences, FiniteSets, TLC

\* ------------------------------------------------------------------------
\* Bounds of the model
\* ------------------------------------------------------------------------
MaxParamLen == 3

MaxCloses == 16

MaxTurns == 2

BaseClose == 100

MaxDays == 27

MaxChanges == 2

\* ------------------------------------------------------------------------
\* Program constants
\* ------------------------------------------------------------------------
RsiPeriod == 14

RsiMinCloses == 15

ShortWindow == 5

LongWindow == 25

VolumeThreshold == 10000000

RsiLow == 40

RsiHigh == 70

BullishMin == 12

NeutralMin == 8

WaitMin == 5

\* ------------------------------------------------------------------------
\* JavaScript values
\* ------------------------------------------------------------------------
Null == [isNull |-> TRUE, num |-> 0, den |-> 1]

Rat(n, d) == [isNull |-> FALSE, num |-> n, den |-> d]

Num(n) == Rat(n, 1)

\* v != null
NotNull(v) == ~v.isNull

\* ToNumber as applied by the relational operators: null becomes +0
ToNumber(v) == IF v.isNull THEN Num(0) ELSE v

\* a < b and a > b of JavaScript on number-or-null operands
JsLt(a, b) == ToNumber(a).num * ToNumber(b).den < ToNumber(b).num * ToNumber(a).den

JsGt(a, b) == JsLt(b, a)

\* numeric equality of two values (null equals only null)
SameValue(a, b) ==
    IF a.isNull \/ b.isNull
    THEN a.isNull /\ b.isNull
    ELSE a.num * b.den = b.num * a.den

\* Math.round(n / d) for n >= 0, d > 0: round half up
MathRound(n, d) == (2 * n + d) \div (2 * d)

\* exact arithmetic on non-null numbers (divisor non-zero)
RatAdd(a, b) == Rat(a.num * b.den + b.num * a.den, a.den * b.den)

RatSub(a, b) == Rat(a.num * b.den - b.num * a.den, a.den * b.den)

RatDiv(a, b) == Rat(a.num * b.den, a.den * b.num)

\* Math.round(x * 10) / 10
RoundTenth(x) == Rat(MathRound(x.num * 10, x.den), 10)

\* arr.filter(v => v != null)
RECURSIVE FilterNotNull(_)
FilterNotNull(arr) ==
    IF arr = <<>> THEN <<>>
    ELSE IF NotNull(Head(arr))
         THEN <<Head(arr)>> \o FilterNotNull(Tail(arr))
         ELSE FilterNotNull(Tail(arr))

\* arr.slice(-w)
SliceLast(arr, w) ==
    IF Len(arr) <= w THEN arr ELSE SubSeq(arr, Len(arr) - w + 1, Len(arr))

\* valid.reduce((a, b) => a + b, 0) over whole-number closes
RECURSIVE SumOf(_)
SumOf(arr) == IF arr = <<>> THEN 0 ELSE Head(arr).num + SumOf(Tail(arr))

\* ------------------------------------------------------------------------
\* Indicator calculator
\* ------------------------------------------------------------------------
average(arr) ==
    LET valid == FilterNotNull(arr)
    IN IF Len(valid) > 0 THEN Rat(SumOf(valid), Len(valid)) ELSE Null

\* the for loop of calcRSI: i runs from `i` to `last`, accumulating
\* <<gains, losses>>
RECURSIVE RsiLoop(_, _, _, _, _)
RsiLoop(closes, i, last, gains, losses) ==
    IF i > last THEN <<gains, losses>>
    ELSE LET diff == closes[i + 1].num - closes[i].num
         IN IF diff > 0
            THEN RsiLoop(closes, i + 1, last, gains + diff, losses)
            ELSE RsiLoop(closes, i + 1, last, gains, losses - diff)

\* index (1-based) of the first close the loop of calcRSI reads
RsiFirstIndex(closes) == Len(closes) - RsiMinCloses + 1

\* the tail of calcRSI, with the zero guard on avgGain tested first
RsiValue_GainFirst(gains, losses) ==
    LET avgGain == Rat(gains, RsiPeriod)
        avgLoss == Rat(losses, RsiPeriod)
        rs == RatDiv(avgGain, avgLoss)
    IN IF avgGain.num = 0 THEN Num(0)
       ELSE IF avgLoss.num = 0 THEN Num(100)
       ELSE RoundTenth(RatSub(Num(100), RatDiv(Num(100), RatAdd(Num(1), rs))))

\* the tail of calcRSI: averages, the two zero guards in their order, and
\* the rounded formula
RsiValue(gains, losses) ==
    LET avgGain == Rat(gains, RsiPeriod)
        avgLoss == Rat(losses, RsiPeriod)
        rs == RatDiv(avgGain, avgLoss)
    IN IF avgLoss.num = 0 THEN Num(100)
       ELSE IF avgGain.num = 0 THEN Num(0)
       ELSE RoundTenth(RatSub(Num(100), RatDiv(Num(100), RatAdd(Num(1), rs))))

calcRSI(closes) ==
    IF Len(closes) < RsiMinCloses THEN Null
    ELSE LET gl == RsiLoop(closes, RsiFirstIndex(closes), Len(closes) - 1, 0, 0)
         IN RsiValue(gl[1], gl[2])

\* the closes taken without the null filter
ClosesOf_NoFilter(historical) == historical

\* historical.map(d => d.close).filter(v => v != null)
ClosesOf(historical) == FilterNotNull(historical)

\* the part of fetchStockData after the two awaits
Snapshot(symbol, quote, historical) ==
    LET closes == ClosesOf(historical)
    IN [symbol |-> symbol,
        price  |-> quote.regularMarketPrice,
        volume |-> quote.regularMarketVolume,
        rsi    |-> calcRSI(closes),
        ma_5   |-> average(SliceLast(closes, ShortWindow)),
        ma_25  |-> average(SliceLast(closes, LongWindow))]

\* ------------------------------------------------------------------------
\* Scorer of /score
\* ------------------------------------------------------------------------
RsiRule(data) ==
    IF NotNull(data.rsi)
    THEN IF JsLt(data.rsi, Num(RsiLow)) THEN [points |-> 5, comment |-> "rsi-buy-zone"]
         ELSE IF JsGt(data.rsi, Num(RsiHigh)) THEN [points |-> 0, comment |-> "rsi-overheated"]
         ELSE [points |-> 3, comment |-> "rsi-neutral"]
    ELSE [points |-> 0, comment |-> "rsi-unavailable"]

MaRule(data) ==
    IF JsGt(data.price, data.ma_5) /\ JsGt(data.ma_5, data.ma_25)
    THEN [points |-> 5, comment |-> "ma-uptrend"]
    ELSE IF JsLt(data.price, data.ma_5) /\ JsLt(data.ma_5, data.ma_25)
    THEN [points |-> 0, comment |-> "ma-downtrend"]
    ELSE [points |-> 2, comment |-> "ma-flat"]

\* the volume rule with the threshold itself counted as notable
VolumeRule_AtLeast(data) ==
    IF NotNull(data.volume) /\ ~JsLt(data.volume, Num(VolumeThreshold))
    THEN [points |-> 5, comment |-> "volume-notable"]
    ELSE IF NotNull(data.volume)
    THEN [points |-> 3, comment |-> "volume-average"]
    ELSE [points |-> 0, comment |-> "volume-unavailable"]

VolumeRule(data) ==
    IF NotNull(data.volume) /\ JsGt(data.volume, Num(VolumeThreshold))
    THEN [points |-> 5, comment |-> "volume-notable"]
    ELSE IF NotNull(data.volume)
    THEN [points |-> 3, comment |-> "volume-average"]
    ELSE [points |-> 0, comment |-> "volume-unavailable"]

\* the judgment with the thresholds tested lowest first
Judgment_LowestFirst(score) ==
    IF score >= WaitMin THEN "wait-and-see"
    ELSE IF score >= NeutralMin THEN "neutral-to-buy"
    ELSE IF score >= BullishMin THEN "bullish"
    ELSE "bearish"

Judgment(score) ==
    IF score >= BullishMin THEN "bullish"
    ELSE IF score >= NeutralMin THEN "neutral-to-buy"
    ELSE IF score >= WaitMin THEN "wait-and-see"
    ELSE "bearish"

\* let score = 0; const comments = []; ... three rules in order
ScoreOf(data) == 0 + RsiRule(data).points + MaRule(data).points + VolumeRule(data).points

CommentsOf(data) == <<RsiRule(data).comment, MaRule(data).comment, VolumeRule(data).comment>>

\* the /score body with the Snapshot spread into it
ScoreBody_Merged(symbol, data) ==
    [symbol   |-> symbol,
     price    |-> data.price,
     volume   |-> data.volume,
     rsi      |-> data.rsi,
     ma_5     |-> data.ma_5,
     ma_25    |-> data.ma_25,
     score    |-> ScoreOf(data),
     judgment |-> Judgment(ScoreOf(data)),
     comments |-> CommentsOf(data)]

\* body of the successful /score response
ScoreBody(symbol, data) ==
    [symbol   |-> symbol,
     score    |-> ScoreOf(data),
     judgment |-> Judgment(ScoreOf(data)),
     comments |-> CommentsOf(data)]

\* ------------------------------------------------------------------------
\* State
\* ------------------------------------------------------------------------
VARIABLES
    closes,       \* argument of the latest calcRSI call
    rsi,          \* its result
    historical,   \* provider's daily series of (nullable) closes
    data,         \* Snapshot returned by the latest fetchStockData
    scored,       \* <<>> or <<body>>: body sent by /score for `data`
    endpoint,     \* route of the request being handled, "none" before any
    query,        \* its query parameter: [present, value]
    pc,           \* where its handler is suspended
    symbols,      \* symbols the handler works on
    idx,          \* position of the for loop of /multi-stock in `symbols`
    quote,        \* quote held by fetchStockData between its two awaits
    results,      \* the results array of /multi-stock
    etf,          \* state of the four concurrent quote calls of /etf
    responses,    \* responses sent for the request, in order
    upstreamCalls,\* provider calls made for the request
    outcomes      \* provider outcomes seen by the request, in order

indicatorVars == <<closes, rsi, historical, data, scored>>

httpVars == <<endpoint, query, pc, symbols, idx, quote, results, etf, responses,
              upstreamCalls, outcomes>>

vars == <<closes, rsi, historical, data, scored, endpoint, query, pc, symbols, idx,
          quote, results, etf, responses, upstreamCalls, outcomes>>

\* ------------------------------------------------------------------------
\* Provider data used as inputs
\* ------------------------------------------------------------------------
\* a quote object; Null stands for a field that is null or missing
EmptyQuote ==
    [regularMarketPrice |-> Null, regularMarketVolume |-> Null,
     regularMarketChange |-> Null, regularMarketChangePercent |-> Null,
     regularMarketPreviousClose |-> Null]

SampleQuote ==
    [regularMarketPrice |-> Num(2), regularMarketVolume |-> Num(15000000),
     regularMarketChange |-> Num(1), regularMarketChangePercent |-> Num(100),
     regularMarketPreviousClose |-> Num(1)]

Quotes == {EmptyQuote, SampleQuote}

SampleSymbol == <<"A">>

\* day-over-day moves of a close in the calcRSI input family
Steps == {-1, 0, 2}

RECURSIVE Turns(_)
\* number of places where the day-over-day move of a series changes
Turns(s) ==
    IF Len(s) < 3 THEN 0
    ELSE Turns(Tail(s)) +
         (IF s[2].num - s[1].num # s[3].num - s[2].num THEN 1 ELSE 0)

RECURSIVE Changes(_)
\* number of adjacent entries of a series that differ
Changes(s) ==
    IF Len(s) < 2 THEN 0
    ELSE Changes(Tail(s)) + (IF s[1] # s[2] THEN 1 ELSE 0)

NextCloses(s) ==
    IF s = <<>> THEN {Num(BaseClose)}
    ELSE {Num(s[Len(s)].num + d) : d \in Steps}

CloseValues == {Null, Num(1), Num(2)}

\* Snapshots a fetch can return: ma_5 and ma_25 are null together (no close
\* at all), and an RSI needs 15 closes, hence non-null averages.
Prices == {Null, Num(90), Num(100), Num(110)}

Averages == {Num(95), Num(100), Rat(201, 2), Num(105)}

RsiValues == {Null, Num(0), Rat(355, 10), Num(40), Rat(555, 10), Num(70), Rat(705, 10), Num(100)}

Volumes == {Null, Num(1000000), Num(10000000), Num(10000001)}

Snapshots ==
    { [symbol |-> SampleSymbol, price |-> p, volume |-> v, rsi |-> r, ma_5 |-> a, ma_25 |-> b] :
        p \in Prices, v \in Volumes, r \in RsiValues, a \in Averages, b \in Averages }
    \cup
    { [symbol |-> SampleSymbol, price |-> p, volume |-> v, rsi |-> Null, ma_5 |-> Null, ma_25 |-> Null] :
        p \in Prices, v \in Volumes }

\* ------------------------------------------------------------------------
\* Indicator and scorer specifications
\* ------------------------------------------------------------------------
HttpIdle ==
    /\ endpoint = "none"
    /\ query = [present |-> FALSE, value |-> <<>>]
    /\ pc = "idle"
    /\ symbols = <<>>
    /\ idx = 0
    /\ quote = EmptyQuote
    /\ results = <<>>
    /\ etf = <<>>
    /\ responses = <<>>
    /\ upstreamCalls = 0
    /\ outcomes = <<>>

IndicatorInit ==
    /\ HttpIdle
    /\ closes = <<>>
    /\ rsi = Null
    /\ historical = <<>>
    /\ data = Snapshot(SampleSymbol, EmptyQuote, <<>>)
    /\ scored = <<>>

\* one more daily close, and calcRSI applied to the series
RsiDay(v) ==
    /\ Len(closes) < MaxCloses
    /\ Turns(Append(closes, v)) <= MaxTurns
    /\ closes' = Append(closes, v)
    /\ rsi' = calcRSI(closes')
    /\ UNCHANGED <<historical, data, scored, httpVars>>

RsiNext == \E v \in NextCloses(closes) : RsiDay(v)

RsiSpec == IndicatorInit /\ [][RsiNext]_vars

\* one more daily record (its close possibly null), and the indicators of
\* fetchStockData computed over the series
HistoryDay(v, q) ==
    /\ Len(historical) < MaxDays
    /\ Changes(Append(historical, v)) <= MaxChanges
    /\ historical' = Append(historical, v)
    /\ data' = Snapshot(SampleSymbol, q, historical')
    /\ UNCHANGED <<closes, rsi, scored, httpVars>>

HistoryNext == \E v \in CloseValues : HistoryDay(v, SampleQuote)

HistorySpec == IndicatorInit /\ [][HistoryNext]_vars

ScoreInit ==
    /\ HttpIdle
    /\ closes = <<>>
    /\ rsi = Null
    /\ historical = <<>>
    /\ data \in Snapshots
    /\ scored = <<>>

\* the scoring block of /score applied to a fetched Snapshot
ScoreSnapshot ==
    /\ scored = <<>>
    /\ scored' = <<ScoreBody(data.symbol, data)>>
    /\ UNCHANGED <<closes, rsi, historical, data, httpVars>>

ScoreNext == ScoreSnapshot

ScoreSpec == ScoreInit /\ [][ScoreNext]_vars

\* ------------------------------------------------------------------------
\* HTTP handlers
\* ------------------------------------------------------------------------
Chars == {"A", "B", ",", " "}

Absent == [present |-> FALSE, value |-> <<>>]

Given(str) == [present |-> TRUE, value |-> str]

QueryParams == {Absent} \cup {Given(str) : str \in UNION {[1..n -> Chars] : n \in 0..MaxParamLen}}

\* !symbol: the parameter is missing or the empty string
Falsy(q) == ~q.present \/ q.value = <<>>

\* provider error messages (err.message)
Messages == {"Not Found", "ETIMEDOUT"}

\* historical series the provider answers a request with
RisingSeries == [i \in 1..20 |-> IF i = 3 THEN Null ELSE Num(i)]

Historicals == {<<>>, RisingSeries}

EtfBasket == << <<"S", "P", "Y">>, <<"Q", "Q", "Q">>, <<"X", "L", "K">>, <<"A", "R", "K", "K">> >>

\* str.split(',')
RECURSIVE Split(_)
Split(str) ==
    IF \A i \in 1..Len(str) : str[i] # ","
    THEN <<str>>
    ELSE LET i == CHOOSE k \in 1..Len(str) :
                      str[k] = "," /\ \A j \in 1..(k - 1) : str[j] # ","
         IN <<SubSeq(str, 1, i - 1)>> \o Split(SubSeq(str, i + 1, Len(str)))

\* s.trim()
RECURSIVE Trim(_)
Trim(str) ==
    IF str = <<>> THEN str
    ELSE IF Head(str) = " " THEN Trim(Tail(str))
    ELSE IF str[Len(str)] = " " THEN Trim(SubSeq(str, 1, Len(str) - 1))
    ELSE str

\* symbolsParam.split(',').map(s => s.trim())
ParseSymbols(str) == LET parts == Split(str) IN [i \in 1..Len(parts) |-> Trim(parts[i])]

\* the failure record carrying nothing but symbol and error
ErrorRecord_Bare(symbol, message) == [symbol |-> symbol, error |-> message]

\* the record built by the catch blocks of /stock and /multi-stock
ErrorRecord(symbol, message) ==
    [symbol |-> symbol, price |-> Null, volume |-> Null, rsi |-> Null,
     ma_5 |-> Null, ma_25 |-> Null, error |-> message]

\* results.push(rec) done as an unshift
PushResult_Unshift(arr, rec) == <<rec>> \o arr

\* results.push(rec)
PushResult(arr, rec) == Append(arr, rec)

\* body of the 500 response of /score
ScoreFailureBody(symbol, message) ==
    [symbol |-> symbol, score |-> 0, judgment |-> "failed", comments |-> <<message>>]

MissingParameter(name) == [status |-> 400, body |-> [error |-> <<"Missing", name, "parameter">>]]

\* one entry of the /etf response
EtfEntry(sym, q) ==
    [symbol |-> sym,
     price |-> q.regularMarketPrice,
     change |-> q.regularMarketChange,
     changesPercentage |-> q.regularMarketChangePercent,
     previousClose |-> q.regularMarketPreviousClose]

\* Promise.all taken as never settled
PromiseAllSettled_Never == FALSE

\* the Promise.all of /etf has settled: its handler has answered
PromiseAllSettled == pc = "done"

\* res.json(...) / res.status(...).json(...): the response goes out and the
\* handler ends
Send(resp) ==
    /\ responses' = Append(responses, resp)
    /\ pc' = "done"

\* a request arrives when no other one is being handled
Arrives(route, q) ==
    /\ pc = "idle"
    /\ endpoint' = route
    /\ query' = q
    /\ outcomes' = <<>>
    /\ results' = <<>>
    /\ quote' = EmptyQuote
    /\ UNCHANGED indicatorVars

\* the 400 branch shared by the four handlers with a required parameter
Reject400(name) ==
    /\ responses' = <<MissingParameter(name)>>
    /\ pc' = "done"
    /\ symbols' = <<>>
    /\ idx' = 0
    /\ etf' = <<>>
    /\ upstreamCalls' = 0

\* the handler runs up to the first await of fetchStockData(syms[1])
StartFetch(syms) ==
    /\ responses' = <<>>
    /\ symbols' = syms
    /\ idx' = 1
    /\ etf' = <<>>
    /\ upstreamCalls' = 1
    /\ pc' = "quote"

GetStock(q) ==
    /\ Arrives("stock", q)
    /\ IF Falsy(q) THEN Reject400("symbol") ELSE StartFetch(<<q.value>>)

GetMultiStock(q) ==
    /\ Arrives("multi-stock", q)
    /\ IF Falsy(q) THEN Reject400("symbols") ELSE StartFetch(ParseSymbols(q.value))

GetScore(q) ==
    /\ Arrives("score", q)
    /\ IF Falsy(q) THEN Reject400("symbol") ELSE StartFetch(<<q.value>>)

GetForex(q) ==
    /\ Arrives("forex", q)
    /\ IF Falsy(q)
       THEN Reject400("symbol")
       ELSE /\ responses' = <<>>
            /\ symbols' = <<q.value>>
            /\ idx' = 1
            /\ etf' = <<>>
            /\ upstreamCalls' = 1
            /\ pc' = "forexQuote"

GetEtf ==
    /\ Arrives("etf", Absent)
    /\ responses' = <<>>
    /\ symbols' = EtfBasket
    /\ idx' = 0
    /\ etf' = [i \in 1..Len(EtfBasket) |-> [state |-> "pending", quote |-> EmptyQuote]]
    /\ upstreamCalls' = Len(EtfBasket)
    /\ pc' = "etfQuotes"

\* what the caller of fetchStockData does with its outcome
\*   o = [ok |-> TRUE, data |-> Snapshot] or [ok |-> FALSE, message |-> m]
AfterFetch(o) ==
    LET symbol == symbols[idx] IN
    /\ outcomes' = Append(outcomes, o)
    /\ UNCHANGED <<endpoint, query, symbols, etf, indicatorVars>>
    /\ CASE endpoint = "stock" ->
              /\ Send(IF o.ok THEN [status |-> 200, body |-> o.data]
                      ELSE [status |-> 500, body |-> ErrorRecord(symbol, o.message)])
              /\ UNCHANGED <<idx, results, upstreamCalls>>
         [] endpoint = "score" ->
              /\ Send(IF o.ok THEN [status |-> 200, body |-> ScoreBody(symbol, o.data)]
                      ELSE [status |-> 500, body |-> ScoreFailureBody(symbol, o.message)])
              /\ UNCHANGED <<idx, results, upstreamCalls>>
         [] endpoint = "multi-stock" ->
              /\ results' = PushResult(results, IF o.ok THEN o.data
                                                 ELSE ErrorRecord(symbol, o.message))
              /\ IF idx < Len(symbols)
                 THEN /\ idx' = idx + 1
                      /\ pc' = "quote"
                      /\ upstreamCalls' = upstreamCalls + 1
                      /\ UNCHANGED responses
                 ELSE /\ Send([status |-> 200, body |-> [results |-> results']])
                      /\ UNCHANGED <<idx, upstreamCalls>>

\* yahooFinance.quote(symbol) of fetchStockData resolves: historical is called
QuoteResolve(q) ==
    /\ pc = "quote"
    /\ quote' = q
    /\ pc' = "historical"
    /\ upstreamCalls' = upstreamCalls + 1
    /\ UNCHANGED <<endpoint, query, symbols, idx, results, etf, responses, outcomes,
                   indicatorVars>>

QuoteReject(m) ==
    /\ pc = "quote"
    /\ UNCHANGED quote
    /\ AfterFetch([ok |-> FALSE, message |-> m])

HistoricalResolve(h) ==
    /\ pc = "historical"
    /\ UNCHANGED quote
    /\ AfterFetch([ok |-> TRUE, data |-> Snapshot(symbols[idx], quote, h)])

HistoricalReject(m) ==
    /\ pc = "historical"
    /\ UNCHANGED quote
    /\ AfterFetch([ok |-> FALSE, message |-> m])

ForexResolve(q) ==
    /\ pc = "forexQuote"
    /\ outcomes' = Append(outcomes, [ok |-> TRUE, data |-> q])
    /\ Send([status |-> 200,
             body |-> [symbol |-> symbols[1], price |-> q.regularMarketPrice]])
    /\ UNCHANGED <<endpoint, query, symbols, idx, quote, results, etf, upstreamCalls,
                   indicatorVars>>

ForexReject(m) ==
    /\ pc = "forexQuote"
    /\ outcomes' = Append(outcomes, [ok |-> FALSE, message |-> m])
    /\ Send([status |-> 500,
             body |-> [symbol |-> symbols[1], price |-> Null, error |-> m]])
    /\ UNCHANGED <<endpoint, query, symbols, idx, quote, results, etf, upstreamCalls,
                   indicatorVars>>

\* one of the four quote calls of /etf resolves; when it is the last one and
\* none was rejected, Promise.all resolves and the list is sent
EtfQuoteResolve(i, q) ==
    /\ endpoint = "etf"
    /\ i \in DOMAIN etf
    /\ etf[i].state = "pending"
    /\ etf' = [etf EXCEPT ![i] = [state |-> "resolved", quote |-> q]]
    /\ outcomes' = Append(outcomes, [ok |-> TRUE, data |-> q])
    /\ IF ~PromiseAllSettled /\ \A k \in DOMAIN etf : etf'[k].state = "resolved"
       THEN Send([status |-> 200,
                  body |-> [etfs |-> [k \in DOMAIN etf |-> EtfEntry(symbols[k], etf'[k].quote)]]])
       ELSE UNCHANGED <<pc, responses>>
    /\ UNCHANGED <<endpoint, query, symbols, idx, quote, results, upstreamCalls,
                   indicatorVars>>

\* one of the four quote calls of /etf is rejected; the first rejection
\* rejects Promise.all and the catch block answers
EtfQuoteReject(i, m) ==
    /\ endpoint = "etf"
    /\ i \in DOMAIN etf
    /\ etf[i].state = "pending"
    /\ etf' = [etf EXCEPT ![i] = [state |-> "rejected", quote |-> EmptyQuote]]
    /\ outcomes' = Append(outcomes, [ok |-> FALSE, message |-> m])
    /\ IF ~PromiseAllSettled
       THEN Send([status |-> 500, body |-> [etfs |-> <<>>, error |-> m]])
       ELSE UNCHANGED <<pc, responses>>
    /\ UNCHANGED <<endpoint, query, symbols, idx, quote, results, upstreamCalls,
                   indicatorVars>>

\* the answered request is over: its handler's locals are gone, and the
\* server waits for the next request
Close ==
    /\ pc = "done"
    /\ pc' = "idle"
    /\ endpoint' = "none"
    /\ query' = Absent
    /\ symbols' = <<>>
    /\ idx' = 0
    /\ quote' = EmptyQuote
    /\ results' = <<>>
    /\ etf' = <<>>
    /\ responses' = <<>>
    /\ upstreamCalls' = 0
    /\ outcomes' = <<>>
    /\ UNCHANGED indicatorVars

Init == IndicatorInit

Next ==
    \/ \E q \in QueryParams : GetStock(q)
    \/ \E q \in QueryParams : GetMultiStock(q)
    \/ \E q \in QueryParams : GetScore(q)
    \/ \E q \in QueryParams : GetForex(q)
    \/ GetEtf
    \/ \E q \in Quotes : QuoteResolve(q)
    \/ \E m \in Messages : QuoteReject(m)
    \/ \E h \in Historicals : HistoricalResolve(h)
    \/ \E m \in Messages : HistoricalReject(m)
    \/ \E q \in Quotes : ForexResolve(q)
    \/ \E m \in Messages : ForexReject(m)
    \/ \E i \in 1..4, q \in Quotes : EtfQuoteResolve(i, q)
    \/ \E i \in 1..4, m \in Messages : EtfQuoteReject(i, m)
    \/ Close

Spec == Init /\ [][Next]_vars

\* ------------------------------------------------------------------------
\* Properties of the handlers (Spec)
\* ------------------------------------------------------------------------
CommaPositions(str) == {k \in 1..Len(str) : str[k] = ","}

\* position of the n-th comma of str; 0 for n = 0, Len(str) + 1 past the last
NthComma(str, n) ==
    IF n = 0 THEN 0
    ELSE IF n > Cardinality(CommaPositions(str)) THEN Len(str) + 1
    ELSE CHOOSE k \in CommaPositions(str) :
            Cardinality({j \in CommaPositions(str) : j < k}) = n - 1

\* the i-th comma-separated piece of str
Piece(str, i) == SubSeq(str, NthComma(str, i - 1) + 1, NthComma(str, i) - 1)

\* a string without its leading and trailing blanks
Stripped(str) ==
    LET solid == {k \in 1..Len(str) : str[k] # " "}
    IN IF solid = {} THEN <<>>
       ELSE SubSeq(str, CHOOSE a \in solid : \A b \in solid : a <= b,
                        CHOOSE a \in solid : \A b \in solid : a >= b)

SnapshotFields == {"symbol", "price", "volume", "rsi", "ma_5", "ma_25"}

ScoreFields == {"symbol", "score", "judgment", "comments"}

Failed == {i \in 1..Len(outcomes) : ~outcomes[i].ok}

FirstFailure == outcomes[CHOOSE i \in Failed : \A j \in Failed : i <= j]

\* C1: /multi-stock with N comma-separated symbols answers 200 with exactly
\* N results, the i-th for the i-th symbol whatever the provider outcomes
C1_OneEntryPerSymbol ==
    (endpoint = "multi-stock" /\ ~Falsy(query)) =>
        LET n == Cardinality(CommaPositions(query.value)) + 1 IN
        /\ Len(results) = Len(outcomes)
        /\ Len(results) <= n
        /\ \A i \in 1..Len(results) :
              /\ results[i].symbol = Stripped(Piece(query.value, i))
              /\ outcomes[i].ok => results[i] = outcomes[i].data
              /\ ~outcomes[i].ok =>
                    "error" \in DOMAIN results[i] /\ results[i].error = outcomes[i].message
        /\ pc = "done" =>
              /\ Len(results) = n
              /\ responses = <<[status |-> 200, body |-> [results |-> results]]>>
        /\ pc # "done" => responses = <<>>

\* an answered batch of two different symbols, the first failed, the second
\* fetched
C1_Witness ==
    /\ endpoint = "multi-stock"
    /\ pc = "done"
    /\ Len(results) = 2
    /\ results[1].symbol # results[2].symbol
    /\ ~outcomes[1].ok
    /\ outcomes[2].ok
    /\ Len(responses) = 1

\* symbols of the batch whose fetchStockData call has been made
FetchStarted == 1..idx

\* C2: while one symbol's provider call of a /multi-stock request is
\* outstanding, the fetch of every other symbol of the batch has been started
C2_NoBlocking ==
    (endpoint = "multi-stock" /\ pc \in {"quote", "historical"}) =>
        \A j \in 1..Len(symbols) : j \in FetchStarted

IsFailureRecord(r, symbol, message) ==
    /\ DOMAIN r = SnapshotFields \cup {"error"}
    /\ r.symbol = symbol
    /\ r.error = message
    /\ r.price.isNull /\ r.volume.isNull /\ r.rsi.isNull /\ r.ma_5.isNull /\ r.ma_25.isNull

\* C3 as stated: the record of a failed fetch has the fields symbol and
\* error and no other
C3_OnlySymbolAndError ==
    /\ (endpoint = "stock" /\ Failed # {} /\ responses # <<>>) =>
          DOMAIN responses[1].body = {"symbol", "error"}
    /\ endpoint = "multi-stock" =>
          \A i \in 1..Len(results) :
              (i \in Failed) => DOMAIN results[i] = {"symbol", "error"}

\* C3 amended: the record of a failed fetch (body of the /stock 500
\* response, entry of the /multi-stock results) has the fields symbol and
\* error and the five Snapshot fields price, volume, rsi, ma_5, ma_25, all
\* null
C3_FailureRecord ==
    /\ (endpoint = "stock" /\ Failed # {}) =>
          /\ Len(responses) = 1
          /\ responses[1].status = 500
          /\ IsFailureRecord(responses[1].body, query.value, FirstFailure.message)
    /\ endpoint = "multi-stock" =>
          \A i \in 1..Len(results) :
              (i \in Failed) => IsFailureRecord(results[i], symbols[i], outcomes[i].message)

\* an answered batch with a failure record next to a Snapshot
C3_Witness ==
    /\ endpoint = "multi-stock"
    /\ pc = "done"
    /\ Len(results) = 2
    /\ 1 \notin Failed
    /\ 2 \in Failed
    /\ results[2].error = "ETIMEDOUT"

IsScoreFailure(resp, symbol, message) ==
    resp = [status |-> 500,
            body |-> [symbol |-> symbol, score |-> 0, judgment |-> "failed",
                      comments |-> <<message>>]]

\* C4 as stated: the successful /score body is the Snapshot merged with the
\* ScoreResult
C4_MergedResponse ==
    (endpoint = "score" /\ outcomes # <<>>) =>
        /\ Len(responses) = 1
        /\ IF outcomes[1].ok
           THEN /\ responses[1].status = 200
                /\ DOMAIN responses[1].body = SnapshotFields \cup ScoreFields
           ELSE IsScoreFailure(responses[1], query.value, outcomes[1].message)

\* C4 amended: the successful /score body has exactly the ScoreResult fields
\* symbol, score, judgment, comments (no Snapshot field); the failed one is
\* 500 with {symbol, score 0, judgment failed, comments [message]}
C4_ScoreResponse ==
    (endpoint = "score" /\ outcomes # <<>>) =>
        /\ Len(responses) = 1
        /\ IF outcomes[1].ok
           THEN /\ responses[1].status = 200
                /\ DOMAIN responses[1].body = ScoreFields
                /\ responses[1].body.symbol = query.value
                /\ responses[1].body.score \in 0..15
                /\ responses[1].body.judgment \in
                       {"bullish", "neutral-to-buy", "wait-and-see", "bearish"}
                /\ Len(responses[1].body.comments) = 3
           ELSE IsScoreFailure(responses[1], query.value, outcomes[1].message)

\* a successful /score answer
C4_Witness ==
    /\ endpoint = "score"
    /\ outcomes # <<>>
    /\ outcomes[1].ok
    /\ ~outcomes[1].data.rsi.isNull
    /\ Len(responses) = 1
    /\ responses[1].status = 200

ParamEndpoints == {"stock", "multi-stock", "score", "forex"}

Outstanding == pc \in {"quote", "historical", "forexQuote", "etfQuotes"}

\* what C5 says of every endpoint but the body of a failure
C5_Common ==
    /\ Len(responses) <= 1
    /\ (endpoint # "none" /\ ~Outstanding) => Len(responses) = 1
    /\ (endpoint \in ParamEndpoints /\ Falsy(query)) =>
          /\ Len(responses) = 1
          /\ responses[1].status = 400
          /\ upstreamCalls = 0
          /\ outcomes = <<>>
    /\ (endpoint \in ParamEndpoints /\ ~Falsy(query)) =>
          /\ upstreamCalls >= 1
          /\ responses # <<>> => responses[1].status # 400

HasErrorField(resp, message) ==
    /\ resp.status = 500
    /\ "error" \in DOMAIN resp.body
    /\ resp.body.error = message

LastDiffs(s) ==
    [k \in 1..RsiPeriod |-> s[Len(s) - RsiPeriod + k].num - s[Len(s) - RsiPeriod + k - 1].num]

RECURSIVE GainSum(_, _)
GainSum(d, k) == IF k = 0 THEN 0 ELSE GainSum(d, k - 1) + (IF d[k] > 0 THEN d[k] ELSE 0)

RECURSIVE LossSum(_, _)
LossSum(d, k) == IF k = 0 THEN 0 ELSE LossSum(d, k - 1) + (IF d[k] < 0 THEN 0 - d[k] ELSE 0)

\* C9: calcRSI is null exactly below 15 closes; otherwise 100 when no
\* difference of the last 14 is negative, 0 when some is negative and none
\* positive, 50 when gains equal losses (both non-zero), always within
\* 0..100, and a function of the last 15 closes only.
C9_CalcRSI ==
    /\ rsi.isNull <=> Len(closes) < RsiMinCloses
    /\ Len(closes) >= RsiMinCloses =>
        LET d == LastDiffs(closes)
            g == GainSum(d, RsiPeriod)
            l == LossSum(d, RsiPeriod)
        IN /\ (\A k \in 1..RsiPeriod : d[k] >= 0) => SameValue(rsi, Num(100))
           /\ ((\E k \in 1..RsiPeriod : d[k] < 0) /\ (\A k \in 1..RsiPeriod : d[k] <= 0))
                 => SameValue(rsi, Num(0))
           /\ (g = l /\ g > 0) => SameValue(rsi, Num(50))
           /\ ~JsLt(rsi, Num(0)) /\ ~JsGt(rsi, Num(100))
           /\ SameValue(rsi, calcRSI(SliceLast(closes, RsiMinCloses)))

\* more than 15 closes, a flat stretch then rises and falls in the window
C9_Witness ==
    /\ Len(closes) > RsiMinCloses
    /\ \E k \in 1..RsiPeriod : LastDiffs(closes)[k] = 0
    /\ \E k \in 1..RsiPeriod : LastDiffs(closes)[k] > 0
    /\ \E k \in 1..RsiPeriod : LastDiffs(closes)[k] < 0
    /\ ~rsi.isNull
    /\ ~SameValue(rsi, Num(50))

\* ------------------------------------------------------------------------
\* Properties of the moving averages of fetchStockData (HistorySpec)
\* ------------------------------------------------------------------------
\* the last w non-null entries of a series
RECURSIVE LastValid(_, _)
LastValid(s, w) ==
    IF s = <<>> \/ w = 0 THEN <<>>
    ELSE LET front == SubSeq(s, 1, Len(s) - 1)
             x == s[Len(s)]
         IN IF x.isNull THEN LastValid(front, w) ELSE Append(LastValid(front, w - 1), x)

\* the non-null entries among the last w entries of a series
LastThenValid(s, w) ==
    LET tail == SliceLast(s, w)
    IN SelectSeq(tail, LAMBDA x : ~x.isNull)

RECURSIVE Total(_, _)
Total(s, k) == IF k = 0 THEN 0 ELSE Total(s, k - 1) + s[k].num

\* arithmetic mean of a series of numbers, null when it is empty
MeanOrNull(s) == IF Len(s) = 0 THEN Null ELSE Rat(Total(s, Len(s)), Len(s))

\* C10 as stated: each moving average is over the last w entries of the
\* series with the nulls dropped afterwards
C10_SliceThenFilter ==
    /\ SameValue(data.ma_5, MeanOrNull(LastThenValid(historical, ShortWindow)))
    /\ SameValue(data.ma_25, MeanOrNull(LastThenValid(historical, LongWindow)))

\* C10 amended: each moving average is over the last w NON-NULL closes of
\* the series (nulls are dropped before the window is taken); it is null
\* exactly when the series has no non-null close, and its divisor is never 0.
C10_FilterThenSlice ==
    /\ SameValue(data.ma_5, MeanOrNull(LastValid(historical, ShortWindow)))
    /\ SameValue(data.ma_25, MeanOrNull(LastValid(historical, LongWindow)))
    /\ data.ma_5.isNull <=> (\A i \in 1..Len(historical) : historical[i].isNull)
    /\ data.ma_25.isNull <=> (\A i \in 1..Len(historical) : historical[i].isNull)
    /\ data.ma_5.den > 0 /\ data.ma_25.den > 0

\* more than 25 non-null closes with a null among the last 25 entries, where
\* the two readings of the 25-day window give different averages
C10_Witness ==
    /\ Len(ClosesOf(historical)) > LongWindow
    /\ \E i \in 1..Len(historical) : i > Len(historical) - LongWindow /\ historical[i].isNull
    /\ ~SameValue(data.ma_25, MeanOrNull(LastThenValid(historical, LongWindow)))
    /\ ~data.ma_5.isNull

\* ------------------------------------------------------------------------
\* Properties of the scorer (ScoreSpec)
\* ------------------------------------------------------------------------
\* comparison of two present numbers
Less(a, b) == a.num * b.den < b.num * a.den

AllPresent(d) == ~d.price.isNull /\ ~d.ma_5.isNull /\ ~d.ma_25.isNull

RsiPoints(d) ==
    IF d.rsi.isNull THEN 0
    ELSE IF Less(d.rsi, Num(40)) THEN 5
    ELSE IF Less(Num(70), d.rsi) THEN 0
    ELSE 3

MaPoints(d) ==
    IF AllPresent(d) /\ Less(d.ma_5, d.price) /\ Less(d.ma_25, d.ma_5) THEN 5
    ELSE IF AllPresent(d) /\ Less(d.price, d.ma_5) /\ Less(d.ma_5, d.ma_25) THEN 0
    ELSE 2

VolumePoints(d) ==
    IF d.volume.isNull THEN 0
    ELSE IF Less(Num(10000000), d.volume) THEN 5
    ELSE 3

\* C6: with price, ma_5 and ma_25 present the score is the sum of the RSI,
\* moving-average and volume contributions, an integer in 0..15
C6_ScoreIsSum ==
    (scored # <<>> /\ AllPresent(data)) =>
        /\ scored[1].score = RsiPoints(data) + MaPoints(data) + VolumePoints(data)
        /\ scored[1].score \in 0..15

\* a scored Snapshot with everything present, RSI in the middle band, a
\* mixed trend and the volume exactly at the threshold
C6_Witness ==
    /\ scored # <<>>
    /\ AllPresent(data)
    /\ ~data.rsi.isNull /\ RsiPoints(data) = 3
    /\ MaPoints(data) = 2
    /\ SameValue(data.volume, Num(10000000))
    /\ scored[1].score = 8

\* C7: the judgment is a function of the score: >= 12 bullish, 8..11
\* neutral-to-buy, 5..7 wait-and-see, <= 4 bearish
C7_Judgment ==
    scored # <<>> =>
        LET sc == scored[1].score
            j == scored[1].judgment
        IN /\ j \in {"bullish", "neutral-to-buy", "wait-and-see", "bearish"}
           /\ (j = "bullish") <=> (sc >= 12)
           /\ (j = "neutral-to-buy") <=> (8 <= sc /\ sc <= 11)
           /\ (j = "wait-and-see") <=> (5 <= sc /\ sc <= 7)
           /\ (j = "bearish") <=> (sc <= 4)

\* all four labels are produced; the witness is a bullish one
C7_Witness ==
    /\ scored # <<>>
    /\ scored[1].score = 15
    /\ scored[1].judgment = "bullish"

\* C8: the moving-average rule awards by presence first: uptrend and
\* downtrend only with price, ma_5 and ma_25 all present, flat otherwise
C8_MaBranchesOnPresence ==
    scored # <<>> =>
        scored[1].comments[2] =
            (IF MaPoints(data) = 5 THEN "ma-uptrend"
             ELSE IF MaPoints(data) = 0 THEN "ma-downtrend"
             ELSE "ma-flat")

====
